---- MODULE Spec2Model ----
(***************************************************************************)
(* A model of doom-parse.py: the lump decoders (read_linedefs, read_origin),*)
(* the sector polygon builder (compute_sector_polygon), the point locator  *)
(* (point_in_polygon, find_sector_for_point) and the module-level batch    *)
(* decode loop.  Python lists are sequences; a Python index i is the       *)
(* sequence index i + 1.                                                   *)
(***************************************************************************)
EXTENDS Integers, Sequences, FiniteSets, TLC

VARIABLES
    \* compute_sector_polygon
    map_obj, sector_index, pc, segments, seg_ids, polygon, changed,
    emitted, attached, chained, returned, result

polyVars == <<map_obj, sector_index, pc, segments, seg_ids, polygon, changed,
              emitted, attached, chained, returned, result>>

VARIABLES
    \* point_in_polygon
    pip_polygon, pip_x, pip_y, pip_i, pip_j, inside, pip_log, pip_pc,
    \* find_sector_for_point
    fs_x, fs_y, fs_index, fs_visited, fs_returned, fs_result, fs_pc

pipVars == <<pip_polygon, pip_x, pip_y, pip_i, pip_j, inside, pip_log, pip_pc>>

findVars == <<fs_x, fs_y, fs_index, fs_visited, fs_returned, fs_result, fs_pc>>

VARIABLES
    \* read_origin
    things, ro_i, origin, ro_pc,
    \* read_linedefs
    linedefs_lump, rl_i, linedefs, rl_pc,
    \* the batch decode loop
    wad_files, file_i, map_i, maps, batch_pc

originVars == <<things, ro_i, origin, ro_pc>>

linedefVars == <<linedefs_lump, rl_i, linedefs, rl_pc>>

batchVars == <<wad_files, file_i, map_i, maps, batch_pc>>

vars == <<polyVars, pipVars, findVars, originVars, linedefVars, batchVars>>

\* compute_sector_polygon returns at line 186 (None) or at line 218 (a list):
\* `returned' says which ("no" before the return) and `result' holds the list.

(***************************************************************************)
(* Records of the data model (the dataclasses).                            *)
(***************************************************************************)
Vertex(x, y) == [x |-> x, y |-> y]

Linedef(v0, v1, flags, special, tag, side0, side1) ==
    [v0 |-> v0, v1 |-> v1, flags |-> flags, special |-> special, tag |-> tag,
     side0 |-> side0, side1 |-> side1]

\* Only the field compute_sector_polygon reads; the offsets and texture
\* names of a sidedef play no part in any operation modelled here.
Sidedef(sector) == [sector |-> sector]

\* `sectors' is the number of sectors: find_sector_for_point only counts them.
\* The name, things and origin of a map play no part in the polygon builder.
Map(vs, lds, sds, n) ==
    [vertices |-> vs, linedefs |-> lds, sidedefs |-> sds, sectors |-> n]

(***************************************************************************)
(* Each operation has its own variables; while one runs, the others rest.  *)
(***************************************************************************)
PolyIdle ==
    /\ sector_index = 0
    /\ pc = "idle"
    /\ segments = <<>>
    /\ seg_ids = <<>>
    /\ polygon = <<>>
    /\ changed = FALSE
    /\ emitted = <<>>
    /\ attached = <<>>
    /\ chained = <<>>
    /\ returned = "no"
    /\ result = <<>>

PipIdle ==
    /\ pip_polygon = <<>>
    /\ pip_x = 0
    /\ pip_y = 0
    /\ pip_i = 0
    /\ pip_j = 0
    /\ inside = FALSE
    /\ pip_log = <<>>
    /\ pip_pc = "idle"

FindIdle ==
    /\ fs_x = 0
    /\ fs_y = 0
    /\ fs_index = 0
    /\ fs_visited = <<>>
    /\ fs_returned = "no"
    /\ fs_result = 0
    /\ fs_pc = "idle"

OriginIdle ==
    /\ things = <<>>
    /\ ro_i = 0
    /\ origin = Vertex(0, 0)
    /\ ro_pc = "idle"

LinedefIdle ==
    /\ linedefs_lump = <<>>
    /\ rl_i = 0
    /\ linedefs = <<>>
    /\ rl_pc = "idle"

BatchIdle ==
    /\ wad_files = <<>>
    /\ file_i = 0
    /\ map_i = 0
    /\ maps = <<>>
    /\ batch_pc = "idle"

\* lst[i] for an index i that is in range
GetItem(lst, i) == lst[i + 1]

SeqRange(s) == {s[i] : i \in DOMAIN s}

(***************************************************************************)
(* compute_sector_polygon: gathering the segments (lines 171-183).         *)
(***************************************************************************)
\* The segments one linedef contributes, in the order they are appended.
Side0Matches(m, ld, s) ==
    ld.side0 /= -1 /\ GetItem(m.sidedefs, ld.side0).sector = s

\* Side1Matches with the presence test written as a sign test
Side1MatchesPositive(m, ld, s) ==
    ld.side1 > 0 /\ GetItem(m.sidedefs, ld.side1).sector = s

Side1Matches(m, ld, s) ==
    ld.side1 /= -1 /\ GetItem(m.sidedefs, ld.side1).sector = s

LinedefSegments(m, ld, s) ==
    LET a == GetItem(m.vertices, ld.v0)
        b == GetItem(m.vertices, ld.v1)
        front == IF Side0Matches(m, ld, s)
                 THEN << << <<a.x, a.y>>, <<b.x, b.y>> >> >> ELSE <<>>
        back  == IF Side1Matches(m, ld, s)
                 THEN << << <<b.x, b.y>>, <<a.x, a.y>> >> >> ELSE <<>>
    IN  front \o back

RECURSIVE GatherSegments(_, _, _)
GatherSegments(m, s, k) ==
    IF k = 0 THEN <<>>
    ELSE GatherSegments(m, s, k - 1) \o LinedefSegments(m, m.linedefs[k], s)

(***************************************************************************)
(* compute_sector_polygon: one scan of the pool (lines 194-214).           *)
(***************************************************************************)
Last(s) == s[Len(s)]

\* The branch of the if/elif chain a segment takes against the path.
AttachKind(poly, seg) ==
    IF seg[1] = Last(poly) THEN "tail_fwd"
    ELSE IF seg[2] = Last(poly) THEN "tail_rev"
    ELSE IF seg[1] = poly[1] THEN "head_fwd"
    ELSE IF seg[2] = poly[1] THEN "head_rev"
    ELSE "none"

\* Attach with the second branch appending the end point that matched
AttachSameEnd(poly, seg) ==
    CASE AttachKind(poly, seg) = "tail_fwd" -> Append(poly, seg[2])
      [] AttachKind(poly, seg) = "tail_rev" -> Append(poly, seg[2])
      [] AttachKind(poly, seg) = "head_fwd" -> <<seg[2]>> \o poly
      [] AttachKind(poly, seg) = "head_rev" -> <<seg[1]>> \o poly
      [] OTHER -> poly

\* polygon.append / polygon.insert(0, ...) of the branch taken
Attach(poly, seg) ==
    CASE AttachKind(poly, seg) = "tail_fwd" -> Append(poly, seg[2])
      [] AttachKind(poly, seg) = "tail_rev" -> Append(poly, seg[1])
      [] AttachKind(poly, seg) = "head_fwd" -> <<seg[2]>> \o poly
      [] AttachKind(poly, seg) = "head_rev" -> <<seg[1]>> \o poly
      [] OTHER -> poly

\* The position the for loop stops at: the first segment that takes a branch
\* (0 when the scan runs to the end).
FirstAttachable(poly, segs) ==
    LET hits == {i \in DOMAIN segs : AttachKind(poly, segs[i]) /= "none"}
    IN  IF hits = {} THEN 0 ELSE CHOOSE i \in hits : \A j \in hits : i <= j

\* PopIndex for segments.pop(): the last segment starts the path
PopIndexLast(segs) == Len(segs)

\* segments.pop(0) (line 190): the position of the segment that starts the path
PopIndex(segs) == 1

\* list.remove(x): the position of the first element equal to x
RemoveIndex(segs, seg) ==
    CHOOSE i \in DOMAIN segs : segs[i] = seg /\ \A j \in 1..(i - 1) : segs[j] /= seg

DropAt(s, i) == [k \in 1..(Len(s) - 1) |-> IF k < i THEN s[k] ELSE s[k + 1]]

\* Remove with the removal left out
RemoveNothing(segs, seg) == segs

\* segments.remove(seg)
Remove(segs, seg) == DropAt(segs, RemoveIndex(segs, seg))

\* ClosePolygon without the test: the first point is always appended
ClosePolygonAlways(poly) == Append(poly, poly[1])

\* Ensure the polygon is closed (lines 216-217).
ClosePolygon(poly) ==
    IF poly[1] /= Last(poly) THEN Append(poly, poly[1]) ELSE poly

\* [Vertex(x, y) for (x, y) in polygon] (line 218)
ToVertices(poly) == [i \in DOMAIN poly |-> Vertex(poly[i][1], poly[i][2])]

(***************************************************************************)
(* The maps compute_sector_polygon is run on.                              *)
(***************************************************************************)
MaxLinedefs == 2

\* Small maps of every shape: three vertices, two sidedefs (sidedef k belongs
\* to sector k), three sectors (sector 2 has no sidedef), and linedefs that
\* are one-sided, two-sided within one sector, two-sided between the sectors
\* or without any side.
SmallVertices == <<Vertex(0, 0), Vertex(64, 0), Vertex(64, 64)>>

SmallSidedefs == <<Sidedef(0), Sidedef(1)>>

SmallSides == {<<0, -1>>, <<1, 0>>, <<0, 0>>, <<-1, -1>>}

SmallLinedefs ==
    {Linedef(v0, v1, 0, 0, 0, sd[1], sd[2]) :
        v0 \in 0..2, v1 \in 0..2, sd \in SmallSides}

SeqsUpTo(S, n) == UNION {[1..k -> S] : k \in 0..n}

SmallMap(lds) == Map(SmallVertices, lds, SmallSidedefs, 3)

MaxLoop == 5

Perms(n) == {f \in [1..n -> 1..n] : \A i, j \in 1..n : f[i] = f[j] => i = j}

Square == <<Vertex(0, 0), Vertex(64, 0), Vertex(64, 64), Vertex(0, 64)>>

\* The corners of a convex n-gon; the square for n = 4.
LoopVertices(n) ==
    IF n = 4 THEN Square ELSE [k \in 1..n |-> Vertex(64 * (k - 1), 16 * (k - 1) * (k - 1))]

\* Edge k of a loop over the vertices first..first+n-1 joins corner k to the
\* next corner.  It is a one-sided line whose front belongs to sector 0, or
\* (k in back) a two-sided line with sector 1 in front and sector 0 behind.
LoopLinedef(first, n, k, back) ==
    LET v0 == first + (k - 1)
        v1 == first + (k % n)
    IN  IF k \in back THEN Linedef(v0, v1, 0, 0, 0, 1, 0)
        ELSE Linedef(v0, v1, 0, 0, 0, 0, -1)

\* One simple closed loop of n edges around sector 0: the linedefs in every
\* order, every edge through either side.
LoopMap(n, p, back) ==
    Map(LoopVertices(n), [i \in 1..n |-> LoopLinedef(0, n, p[i], back)],
        SmallSidedefs, 2)

\* Two triangles that share no vertex, both around sector 0: the six
\* linedefs in every order, every edge through either side.
TwoTriangles ==
    <<Vertex(0, 0), Vertex(64, 0), Vertex(0, 64),
      Vertex(128, 128), Vertex(192, 128), Vertex(128, 192)>>

TwoLoopLinedef(k, back) ==
    IF k <= 3 THEN LoopLinedef(0, 3, k, back)
    ELSE LoopLinedef(3, 3, k - 3, {j - 3 : j \in back})

TwoLoopMap(p, back) ==
    Map(TwoTriangles, [i \in 1..6 |-> TwoLoopLinedef(p[i], back)],
        SmallSidedefs, 2)

(***************************************************************************)
(* compute_sector_polygon as a state machine.                              *)
(***************************************************************************)
PolyStart(m, s) ==
    /\ map_obj = m
    /\ sector_index = s
    /\ pc = "gather"
    /\ segments = <<>>
    /\ seg_ids = <<>>
    /\ polygon = <<>>
    /\ changed = FALSE
    /\ emitted = <<>>
    /\ attached = <<>>
    /\ chained = <<>>
    /\ returned = "no"
    /\ result = <<>>
    /\ PipIdle /\ FindIdle /\ OriginIdle /\ LinedefIdle /\ BatchIdle

Init ==
    \E lds \in SeqsUpTo(SmallLinedefs, MaxLinedefs) : \E s \in 0..2 :
        PolyStart(SmallMap(lds), s)

\* lines 171-186: the scan of the linedefs finds no segment
ReturnNone ==
    /\ pc = "gather"
    /\ GatherSegments(map_obj, sector_index, Len(map_obj.linedefs)) = <<>>
    /\ pc' = "done"
    /\ returned' = "None"
    /\ UNCHANGED <<result, map_obj, sector_index, segments, seg_ids, polygon, changed,
                   emitted, attached, chained>>
    /\ UNCHANGED <<pipVars, findVars, originVars, linedefVars, batchVars>>

\* lines 171-191: the segments are gathered and the first one starts the path
StartPath ==
    LET segs == GatherSegments(map_obj, sector_index, Len(map_obj.linedefs))
    IN  /\ pc = "gather"
        /\ segs /= <<>>
        /\ emitted' = segs
        /\ polygon' = <<segs[PopIndex(segs)][1], segs[PopIndex(segs)][2]>>
        /\ segments' = DropAt(segs, PopIndex(segs))
        /\ seg_ids' = DropAt([k \in DOMAIN segs |-> k], PopIndex(segs))
        /\ attached' = <<PopIndex(segs)>>
        /\ changed' = TRUE
        /\ pc' = "chain"
        /\ UNCHANGED <<map_obj, sector_index, chained, returned, result>>
        /\ UNCHANGED <<pipVars, findVars, originVars, linedefVars, batchVars>>

\* lines 192-214: one pass of the while loop whose scan attaches a segment
ScanAttach ==
    LET i == FirstAttachable(polygon, segments)
    IN  /\ pc = "chain"
        /\ segments /= <<>> /\ changed
        /\ i /= 0
        /\ polygon' = Attach(polygon, segments[i])
        /\ segments' = Remove(segments, segments[i])
        /\ seg_ids' = DropAt(seg_ids, RemoveIndex(segments, segments[i]))
        /\ attached' = Append(attached, seg_ids[RemoveIndex(segments, segments[i])])
        /\ changed' = TRUE
        /\ UNCHANGED <<map_obj, sector_index, pc, emitted, chained, returned, result>>
        /\ UNCHANGED <<pipVars, findVars, originVars, linedefVars, batchVars>>

\* lines 192-194: one pass of the while loop whose scan runs to the end
ScanNoMatch ==
    /\ pc = "chain"
    /\ segments /= <<>> /\ changed
    /\ FirstAttachable(polygon, segments) = 0
    /\ changed' = FALSE
    /\ UNCHANGED <<map_obj, sector_index, pc, segments, seg_ids, polygon,
                   emitted, attached, chained, returned, result>>
    /\ UNCHANGED <<pipVars, findVars, originVars, linedefVars, batchVars>>

\* lines 215-218: the loop has ended; close the path and return it
ReturnPolygon ==
    /\ pc = "chain"
    /\ ~(segments /= <<>> /\ changed)
    /\ chained' = polygon
    /\ polygon' = ClosePolygon(polygon)
    /\ result' = ToVertices(ClosePolygon(polygon))
    /\ returned' = "polygon"
    /\ pc' = "done"
    /\ UNCHANGED <<map_obj, sector_index, segments, seg_ids, changed, emitted,
                   attached>>
    /\ UNCHANGED <<pipVars, findVars, originVars, linedefVars, batchVars>>

Next == ReturnNone \/ StartPath \/ ScanAttach \/ ScanNoMatch \/ ReturnPolygon

\* The function is one sequential call: a step that can be taken is taken.
Spec == Init /\ [][Next]_vars /\ WF_vars(Next)

InitLoop ==
    \E n \in 3..MaxLoop : \E p \in Perms(n) : \E back \in SUBSET (1..n) :
        \E s \in 0..1 : PolyStart(LoopMap(n, p, back), s)

SpecLoop == InitLoop /\ [][Next]_vars /\ WF_vars(Next)

InitTwoLoops ==
    \E p \in Perms(6) : \E back \in SUBSET (1..6) : \E s \in 0..1 :
        PolyStart(TwoLoopMap(p, back), s)

SpecTwoLoops == InitTwoLoops /\ [][Next]_vars /\ WF_vars(Next)

(***************************************************************************)
(* compute_sector_polygon as a function of the map and the sector, for its *)
(* caller find_sector_for_point.                                           *)
(***************************************************************************)
\* the while loop (lines 192-214) run to its end
RECURSIVE Chain(_, _)
Chain(poly, segs) ==
    IF segs = <<>> \/ FirstAttachable(poly, segs) = 0 THEN poly
    ELSE LET seg == segs[FirstAttachable(poly, segs)]
         IN  Chain(Attach(poly, seg), Remove(segs, seg))

compute_sector_polygon(m, s) ==
    LET segs == GatherSegments(m, s, Len(m.linedefs))
    IN  IF segs = <<>> THEN [returned |-> "None", result |-> <<>>]
        ELSE LET first == segs[PopIndex(segs)]
                 path == Chain(<<first[1], first[2]>>, DropAt(segs, PopIndex(segs)))
             IN  [returned |-> "polygon", result |-> ToVertices(ClosePolygon(path))]

\* The state machine and the function are the same computation.
PolygonFunctionAgrees ==
    pc = "done" =>
        compute_sector_polygon(map_obj, sector_index) =
            [returned |-> returned, result |-> result]

(***************************************************************************)
(* point_in_polygon (lines 220-234).                                       *)
(***************************************************************************)
\* EdgeCrosses with the second comparison not strict
EdgeCrossesLoose(yi, yj, y) == (yi > y) /= (yj >= y)

\* (yi > y) != (yj > y): the left operand of the `and' at line 231.  The right
\* operand, with its division by (yj - yi), is evaluated only when this holds.
EdgeCrosses(yi, yj, y) == (yi > y) /= (yj > y)

\* x < (xj - xi) * (y - yi) / (yj - yi) + xi, for yj /= yi.  The coordinates
\* are 16-bit integers, so the float quotient is within 2^-20 of the exact
\* one while two distinct values of the two sides differ by at least
\* 1 / |yj - yi| >= 2^-16: the float comparison is the exact comparison,
\* done here without the division.
RayLeftOfIntercept(x, y, vi, vj) ==
    LET d == vj.y - vi.y
        a == (vj.x - vi.x) * (y - vi.y)
    IN  IF d > 0 THEN (x - vi.x) * d < a ELSE (x - vi.x) * d > a

\* the condition of line 231 for one edge
EdgeToggles(x, y, vi, vj) ==
    EdgeCrosses(vi.y, vj.y, y) /\ RayLeftOfIntercept(x, y, vi, vj)

\* `inside' after the first k passes of the for loop; pass i (from 0) uses
\* j = n - 1 when i = 0 and j = i - 1 afterwards
RECURSIVE InsideAfter(_, _, _, _)
InsideAfter(x, y, poly, k) ==
    IF k = 0 THEN FALSE
    ELSE LET i == k - 1
             j == IF i = 0 THEN Len(poly) - 1 ELSE i - 1
             before == InsideAfter(x, y, poly, k - 1)
         IN  IF EdgeToggles(x, y, GetItem(poly, i), GetItem(poly, j))
             THEN ~before ELSE before

point_in_polygon(x, y, poly) == InsideAfter(x, y, poly, Len(poly))

MaxPolyLen == 4

PipPoints == {Vertex(0, 0), Vertex(4, 0), Vertex(4, 4), Vertex(0, 4), Vertex(2, 2)}

InitPip ==
    /\ pip_polygon \in SeqsUpTo(PipPoints, MaxPolyLen)
    /\ pip_x \in {-1, 3, 5}
    /\ pip_y \in {0, 1, 4}
    /\ pip_i = 0
    /\ pip_j = Len(pip_polygon) - 1
    /\ inside = FALSE
    /\ pip_log = <<>>
    /\ pip_pc = "loop"
    /\ map_obj = Map(<<>>, <<>>, <<>>, 0)
    /\ PolyIdle /\ FindIdle /\ OriginIdle /\ LinedefIdle /\ BatchIdle

\* lines 229-233: one pass of the for loop
PipEdge ==
    LET vi == GetItem(pip_polygon, pip_i)
        vj == GetItem(pip_polygon, pip_j)
        divided == EdgeCrosses(vi.y, vj.y, pip_y)
        toggled == divided /\ RayLeftOfIntercept(pip_x, pip_y, vi, vj)
    IN  /\ pip_pc = "loop"
        /\ pip_i < Len(pip_polygon)
        /\ IF divided /\ vj.y - vi.y = 0
           THEN /\ pip_pc' = "ZeroDivisionError"
                /\ pip_log' = Append(pip_log, [yi |-> vi.y, yj |-> vj.y,
                                               divided |-> TRUE, toggled |-> FALSE])
                /\ UNCHANGED <<inside, pip_i, pip_j>>
           ELSE /\ inside' = IF toggled THEN ~inside ELSE inside
                /\ pip_log' = Append(pip_log, [yi |-> vi.y, yj |-> vj.y,
                                               divided |-> divided, toggled |-> toggled])
                /\ pip_j' = pip_i
                /\ pip_i' = pip_i + 1
                /\ UNCHANGED pip_pc
        /\ UNCHANGED <<pip_polygon, pip_x, pip_y>>
        /\ UNCHANGED <<polyVars, findVars, originVars, linedefVars, batchVars>>

\* line 234
PipReturn ==
    /\ pip_pc = "loop"
    /\ pip_i = Len(pip_polygon)
    /\ pip_pc' = "done"
    /\ UNCHANGED <<pip_polygon, pip_x, pip_y, pip_i, pip_j, inside, pip_log>>
    /\ UNCHANGED <<polyVars, findVars, originVars, linedefVars, batchVars>>

NextPip == PipEdge \/ PipReturn

SpecPip == InitPip /\ [][NextPip]_vars /\ WF_vars(NextPip)

\* The state machine and the function are the same computation.
PipFunctionAgrees ==
    pip_pc = "done" => inside = point_in_polygon(pip_x, pip_y, pip_polygon)

(***************************************************************************)
(* find_sector_for_point (lines 236-246).                                  *)
(***************************************************************************)
\* SectorHit with `or' in place of `and'
SectorHitEither(m, x, y, s) ==
    LET p == compute_sector_polygon(m, s)
    IN  (p.returned = "polygon" /\ p.result /= <<>>)
            \/ point_in_polygon(x, y, p.result)

\* lines 243-244: polygon and point_in_polygon(x, y, polygon); None and the
\* empty list are false
SectorHit(m, x, y, s) ==
    LET p == compute_sector_polygon(m, s)
    IN  (p.returned = "polygon" /\ p.result /= <<>>)
            /\ point_in_polygon(x, y, p.result)

MaxSectors == 3

\* Maps whose sectors are each bounded by one-sided lines (sidedef k belongs
\* to sector k) along the square A = [0,64] x [0,64], the square
\* B = [64,128] x [0,64] or the rectangle AB = [0,128] x [0,64], or have no
\* line at all.
FindVertices ==
    <<Vertex(0, 0), Vertex(64, 0), Vertex(128, 0),
      Vertex(128, 64), Vertex(64, 64), Vertex(0, 64)>>

ShapeCorners(shape) ==
    CASE shape = "A" -> <<0, 1, 4, 5>>
      [] shape = "B" -> <<1, 2, 3, 4>>
      [] shape = "AB" -> <<0, 2, 3, 5>>
      [] OTHER -> <<>>

ShapeLinedefs(s, shape) ==
    LET c == ShapeCorners(shape)
    IN  [e \in 1..Len(c) |-> Linedef(c[e], c[(e % Len(c)) + 1], 0, 0, 0, s, -1)]

RECURSIVE ShapesLinedefs(_, _)
ShapesLinedefs(shapes, k) ==
    IF k = 0 THEN <<>>
    ELSE ShapesLinedefs(shapes, k - 1) \o ShapeLinedefs(k - 1, shapes[k])

FindMap(shapes) ==
    Map(FindVertices, ShapesLinedefs(shapes, Len(shapes)),
        [k \in 1..Len(shapes) |-> Sidedef(k - 1)], Len(shapes))

InitFind ==
    /\ \E shapes \in SeqsUpTo({"none", "A", "B", "AB"}, MaxSectors) :
           map_obj = FindMap(shapes)
    /\ fs_x \in {32, 96, 1000}
    /\ fs_y \in {32, 1000}
    /\ fs_index = 0
    /\ fs_visited = <<>>
    /\ fs_returned = "no"
    /\ fs_result = 0
    /\ fs_pc = "loop"
    /\ PolyIdle /\ PipIdle /\ OriginIdle /\ LinedefIdle /\ BatchIdle

\* lines 242-245: the sector's polygon contains the point
FindReturnSector ==
    /\ fs_pc = "loop"
    /\ fs_index < map_obj.sectors
    /\ SectorHit(map_obj, fs_x, fs_y, fs_index)
    /\ fs_visited' = Append(fs_visited, fs_index)
    /\ fs_returned' = "index"
    /\ fs_result' = fs_index
    /\ fs_pc' = "done"
    /\ UNCHANGED <<fs_x, fs_y, fs_index>>
    /\ UNCHANGED <<polyVars, pipVars, originVars, linedefVars, batchVars>>

\* lines 242-244: no polygon, or the point is not in it; on to the next sector
FindNextSector ==
    /\ fs_pc = "loop"
    /\ fs_index < map_obj.sectors
    /\ ~SectorHit(map_obj, fs_x, fs_y, fs_index)
    /\ fs_visited' = Append(fs_visited, fs_index)
    /\ fs_index' = fs_index + 1
    /\ UNCHANGED <<fs_x, fs_y, fs_returned, fs_result, fs_pc>>
    /\ UNCHANGED <<polyVars, pipVars, originVars, linedefVars, batchVars>>

\* line 246
FindReturnNone ==
    /\ fs_pc = "loop"
    /\ fs_index = map_obj.sectors
    /\ fs_returned' = "None"
    /\ fs_pc' = "done"
    /\ UNCHANGED <<fs_x, fs_y, fs_index, fs_visited, fs_result>>
    /\ UNCHANGED <<polyVars, pipVars, originVars, linedefVars, batchVars>>

NextFind == FindReturnSector \/ FindNextSector \/ FindReturnNone

SpecFind == InitFind /\ [][NextFind]_vars /\ WF_vars(NextFind)

(***************************************************************************)
(* read_origin (lines 157-164).                                            *)
(***************************************************************************)
Thing(x_pos, y_pos, angle, type, flags) ==
    [x_pos |-> x_pos, y_pos |-> y_pos, angle |-> angle, type |-> type,
     flags |-> flags]

\* OriginAfter with a truth test of the type in place of the comparison to 1
OriginAfterAnyType(o, thing) ==
    IF thing.type /= 0 THEN Vertex(thing.x_pos, thing.y_pos) ELSE o

\* lines 161-162: the body of the for loop
OriginAfter(o, thing) ==
    IF thing.type = 1 THEN Vertex(thing.x_pos, thing.y_pos) ELSE o

MaxThings == 3

\* player starts (type 1), other things (types 2 and 3004), at three places
SomeThings ==
    {Thing(p[1], p[2], 0, t, 7) :
        p \in {<<0, 0>>, <<50, 50>>, <<128, -64>>}, t \in {1, 2, 3004}}

InitOrigin ==
    /\ things \in SeqsUpTo(SomeThings, MaxThings)
    /\ ro_i = 0
    /\ origin = Vertex(0, 0)
    /\ ro_pc = "loop"
    /\ map_obj = Map(<<>>, <<>>, <<>>, 0)
    /\ PolyIdle /\ PipIdle /\ FindIdle /\ LinedefIdle /\ BatchIdle

\* lines 160-162: one pass of the for loop
OriginThing ==
    /\ ro_pc = "loop"
    /\ ro_i < Len(things)
    /\ origin' = OriginAfter(origin, GetItem(things, ro_i))
    /\ ro_i' = ro_i + 1
    /\ UNCHANGED <<things, ro_pc>>
    /\ UNCHANGED <<polyVars, pipVars, findVars, linedefVars, batchVars>>

\* line 164
OriginReturn ==
    /\ ro_pc = "loop"
    /\ ro_i = Len(things)
    /\ ro_pc' = "done"
    /\ UNCHANGED <<things, ro_i, origin>>
    /\ UNCHANGED <<polyVars, pipVars, findVars, linedefVars, batchVars>>

NextOrigin == OriginThing \/ OriginReturn

SpecOrigin == InitOrigin /\ [][NextOrigin]_vars /\ WF_vars(NextOrigin)

(***************************************************************************)
(* read_linedefs (lines 77-93).  A lump is a sequence of bytes.            *)
(***************************************************************************)
LinedefSize == 14

\* the two bytes at an offset as an unsigned little-endian number
ReadU16(lump, offset) == lump[offset + 1] + 256 * lump[offset + 2]

\* Int16 for the format character H: the field read as unsigned
Int16Unsigned(u) == u

\* the value of a 16-bit field read with the format character h (signed)
Int16(u) == IF u >= 32768 THEN u - 65536 ELSE u

\* one field of struct.unpack_from("<hhhhhhh", lump, offset); k counts from 0
UnpackField(lump, offset, k) == Int16(ReadU16(lump, offset + 2 * k))

\* lines 88-89: side if side != 0xFFFF else -1
SideOrAbsent(side) == IF side /= 65535 THEN side ELSE -1

\* lines 86-91: the i-th record (i from 0)
DecodeLinedef(lump, i) ==
    LET offset == i * LinedefSize
    IN  Linedef(UnpackField(lump, offset, 0), UnpackField(lump, offset, 1),
                UnpackField(lump, offset, 2), UnpackField(lump, offset, 3),
                UnpackField(lump, offset, 4),
                SideOrAbsent(UnpackField(lump, offset, 5)),
                SideOrAbsent(UnpackField(lump, offset, 6)))

MaxRecords == 2

\* the bytes of a 16-bit word, low byte first
WordBytes(w) == <<w % 256, w \div 256>>

\* a record with vertices 0 and 1, no flags, special or tag, and the two raw
\* side words
RecordBytes(sides) ==
    WordBytes(0) \o WordBytes(1) \o WordBytes(0) \o WordBytes(0) \o WordBytes(0)
        \o WordBytes(sides[1]) \o WordBytes(sides[2])

RECURSIVE LumpBytes(_, _)
LumpBytes(records, k) ==
    IF k = 0 THEN <<>> ELSE LumpBytes(records, k - 1) \o RecordBytes(records[k])

RawSides == {0, 32767, 32768, 65534, 65535}

\* whole records, then possibly the first bytes of a cut-off record
InitLinedefs ==
    /\ \E records \in SeqsUpTo(RawSides \X RawSides, MaxRecords) :
       \E rest \in {<<>>, <<255, 255, 255>>} :
           linedefs_lump = LumpBytes(records, Len(records)) \o rest
    /\ rl_i = 0
    /\ linedefs = <<>>
    /\ rl_pc = "loop"
    /\ map_obj = Map(<<>>, <<>>, <<>>, 0)
    /\ PolyIdle /\ PipIdle /\ FindIdle /\ OriginIdle /\ BatchIdle

\* lines 85-91: one pass of the for loop
ReadLinedef ==
    /\ rl_pc = "loop"
    /\ rl_i < Len(linedefs_lump) \div LinedefSize
    /\ linedefs' = Append(linedefs, DecodeLinedef(linedefs_lump, rl_i))
    /\ rl_i' = rl_i + 1
    /\ UNCHANGED <<linedefs_lump, rl_pc>>
    /\ UNCHANGED <<polyVars, pipVars, findVars, originVars, batchVars>>

\* line 93
ReadLinedefsReturn ==
    /\ rl_pc = "loop"
    /\ rl_i = Len(linedefs_lump) \div LinedefSize
    /\ rl_pc' = "done"
    /\ UNCHANGED <<linedefs_lump, rl_i, linedefs>>
    /\ UNCHANGED <<polyVars, pipVars, findVars, originVars, batchVars>>

NextLinedefs == ReadLinedef \/ ReadLinedefsReturn

SpecLinedefs == InitLinedefs /\ [][NextLinedefs]_vars /\ WF_vars(NextLinedefs)

(***************************************************************************)
(* The batch decode loop of the module (lines 289-308).  A file is a WAD   *)
(* or not; a WAD holds maps; a map's lump collection is the set of the     *)
(* names of its lumps (what the lumps hold does not decide whether a map   *)
(* is decoded).                                                            *)
(***************************************************************************)
\* the order in which the five decoders are called (lines 296, 300-303)
DecodeOrder == <<"THINGS", "VERTEXES", "LINEDEFS", "SIDEDEFS", "SECTORS">>

RequiredLumps == SeqRange(DecodeOrder)

\* the lump whose decoder raises KeyError (lines 63, 78, 96, 119, 143), or
\* "none" when all five are present
FirstMissing(name_group) ==
    LET missing == {k \in DOMAIN DecodeOrder : DecodeOrder[k] \notin name_group}
    IN  IF missing = {} THEN "none"
        ELSE DecodeOrder[CHOOSE k \in missing : \A j \in missing : k <= j]

MaxFiles == 2

MaxMapsPerWad == 2

\* complete lump collections and those with one required lump missing
NameGroups == {RequiredLumps} \cup {RequiredLumps \ {l} : l \in RequiredLumps}

WadFiles ==
    {[is_wad |-> FALSE, maps |-> <<>>]}
        \cup {[is_wad |-> TRUE, maps |-> ms] : ms \in SeqsUpTo(NameGroups, MaxMapsPerWad)}

InitBatch ==
    /\ wad_files \in SeqsUpTo(WadFiles, MaxFiles)
    /\ file_i = 0
    /\ map_i = 0
    /\ maps = <<>>
    /\ batch_pc = "loop"
    /\ map_obj = Map(<<>>, <<>>, <<>>, 0)
    /\ PolyIdle /\ PipIdle /\ FindIdle /\ OriginIdle /\ LinedefIdle

\* lines 290-291: the file name does not end in .wad
SkipFile ==
    /\ batch_pc = "loop"
    /\ file_i < Len(wad_files)
    /\ ~GetItem(wad_files, file_i).is_wad
    /\ file_i' = file_i + 1
    /\ UNCHANGED <<wad_files, map_i, maps, batch_pc>>
    /\ UNCHANGED <<polyVars, pipVars, findVars, originVars, linedefVars>>

\* lines 294-306: the five decoders return and the map is appended
DecodeMap ==
    /\ batch_pc = "loop"
    /\ file_i < Len(wad_files)
    /\ GetItem(wad_files, file_i).is_wad
    /\ map_i < Len(GetItem(wad_files, file_i).maps)
    /\ FirstMissing(GetItem(GetItem(wad_files, file_i).maps, map_i)) = "none"
    /\ maps' = Append(maps, <<file_i, map_i>>)
    /\ map_i' = map_i + 1
    /\ UNCHANGED <<wad_files, file_i, batch_pc>>
    /\ UNCHANGED <<polyVars, pipVars, findVars, originVars, linedefVars>>

\* lines 294-303: a decoder raises KeyError; nothing catches it and the
\* program ends
DecodeRaises ==
    /\ batch_pc = "loop"
    /\ file_i < Len(wad_files)
    /\ GetItem(wad_files, file_i).is_wad
    /\ map_i < Len(GetItem(wad_files, file_i).maps)
    /\ FirstMissing(GetItem(GetItem(wad_files, file_i).maps, map_i)) /= "none"
    /\ batch_pc' = "KeyError"
    /\ UNCHANGED <<wad_files, file_i, map_i, maps>>
    /\ UNCHANGED <<polyVars, pipVars, findVars, originVars, linedefVars>>

\* line 294: the maps of the WAD are exhausted
WadDone ==
    /\ batch_pc = "loop"
    /\ file_i < Len(wad_files)
    /\ GetItem(wad_files, file_i).is_wad
    /\ map_i = Len(GetItem(wad_files, file_i).maps)
    /\ file_i' = file_i + 1
    /\ map_i' = 0
    /\ UNCHANGED <<wad_files, maps, batch_pc>>
    /\ UNCHANGED <<polyVars, pipVars, findVars, originVars, linedefVars>>

\* lines 290, 308: the files are exhausted
BatchDone ==
    /\ batch_pc = "loop"
    /\ file_i = Len(wad_files)
    /\ batch_pc' = "done"
    /\ UNCHANGED <<wad_files, file_i, map_i, maps>>
    /\ UNCHANGED <<polyVars, pipVars, findVars, originVars, linedefVars>>

NextBatch == SkipFile \/ DecodeMap \/ DecodeRaises \/ WadDone \/ BatchDone

SpecBatch == InitBatch /\ [][NextBatch]_vars /\ WF_vars(NextBatch)

(***************************************************************************)
(* The segments as a graph on their end points.                            *)
(***************************************************************************)
EndPoints(seg) == {seg[1], seg[2]}

PointsOf(segs) == UNION {EndPoints(segs[i]) : i \in DOMAIN segs}

Degree(segs, v) ==
    Cardinality({i \in DOMAIN segs : segs[i][1] = v})
        + Cardinality({i \in DOMAIN segs : segs[i][2] = v})

RECURSIVE Reach(_, _)
Reach(segs, S) ==
    LET T == S \cup UNION {EndPoints(segs[i]) :
                            i \in {j \in DOMAIN segs : EndPoints(segs[j]) \cap S /= {}}}
    IN  IF T = S THEN S ELSE Reach(segs, T)

\* every end point is shared by exactly two segments, none of zero length
AllDegreeTwo(segs) ==
    /\ \A i \in DOMAIN segs : segs[i][1] /= segs[i][2]
    /\ \A v \in PointsOf(segs) : Degree(segs, v) = 2

IsSimpleLoop(segs) ==
    /\ Len(segs) >= 3
    /\ AllDegreeTwo(segs)
    /\ Reach(segs, EndPoints(segs[1])) = PointsOf(segs)

TwoDisjointLoops(segs) ==
    /\ Len(segs) >= 6
    /\ AllDegreeTwo(segs)
    /\ LET first == Reach(segs, EndPoints(segs[1]))
           other == PointsOf(segs) \ first
       IN  /\ Cardinality(first) >= 3
           /\ Cardinality(other) >= 3
           /\ \A v \in other : Reach(segs, {v}) = other

PointOf(v) == <<v.x, v.y>>

RingEdge(ring, i) == {PointOf(ring[i]), PointOf(ring[i + 1])}

(***************************************************************************)
(* C1: when the emitted segments form one simple closed loop of n >= 3     *)
(* segments, the returned ring has n + 1 points, starts and ends at the    *)
(* same point, every consecutive pair of points is an edge of the loop and *)
(* every edge of the loop appears exactly once.                            *)
(***************************************************************************)
SimpleLoopRing ==
    (pc = "done" /\ IsSimpleLoop(emitted)) =>
        LET n == Len(emitted)
        IN  /\ returned = "polygon"
            /\ Len(result) = n + 1
            /\ result[1] = result[n + 1]
            /\ \A i \in 1..n : \E k \in 1..n : RingEdge(result, i) = EndPoints(emitted[k])
            /\ \A k \in 1..n :
                   Cardinality({i \in 1..n : RingEdge(result, i) = EndPoints(emitted[k])}) = 1

\* the square, its linedefs out of loop order, one edge through side1:
\* a 5-point ring
SimpleLoopRingWitness ==
    /\ pc = "done"
    /\ IsSimpleLoop(emitted)
    /\ map_obj.vertices = Square
    /\ map_obj.linedefs[1].v0 = 2
    /\ map_obj.linedefs[2].v0 = 0
    /\ \E i \in DOMAIN map_obj.linedefs : map_obj.linedefs[i].side1 = 0
    /\ \E i \in DOMAIN map_obj.linedefs : map_obj.linedefs[i].side1 = -1
    /\ returned = "polygon"
    /\ Len(result) = 5

(***************************************************************************)
(* C2: every returned polygon has at least 2 points and its first point    *)
(* equals its last; the closing point is appended exactly when the chained *)
(* path's first and last points differ.                                    *)
(***************************************************************************)
ClosedRing ==
    (pc = "done" /\ returned = "polygon") =>
        /\ Len(result) >= 2
        /\ result[1] = result[Len(result)]
        /\ Len(result) = Len(chained) + (IF chained[1] /= Last(chained) THEN 1 ELSE 0)

\* a path that did not chain into a loop and got the closing point
ClosedRingWitness ==
    /\ pc = "done"
    /\ returned = "polygon"
    /\ segments /= <<>>
    /\ chained[1] /= Last(chained)
    /\ Len(result) = Len(chained) + 1

(***************************************************************************)
(* C3: the result is None exactly when no linedef has a present side0 or   *)
(* side1 whose sidedef belongs to the sector.                              *)
(***************************************************************************)
SectorReferenced(m, s) ==
    \E i \in DOMAIN m.linedefs :
        \E side \in {m.linedefs[i].side0, m.linedefs[i].side1} :
            side /= -1 /\ m.sidedefs[side + 1].sector = s

NoneIffUnreferenced ==
    pc = "done" => (returned = "None" <=> ~SectorReferenced(map_obj, sector_index))

\* a map with linedefs, none of them on the sector: a normal return of None
NoneIffUnreferencedWitness ==
    /\ pc = "done"
    /\ map_obj.linedefs /= <<>>
    /\ ~SectorReferenced(map_obj, sector_index)
    /\ returned = "None"

(***************************************************************************)
(* C9: the chaining loop terminates; an attachment removes exactly one     *)
(* segment from the pool and the pool changes in no other way; no segment  *)
(* is attached twice; when the loop has stopped the pool is empty or no    *)
(* remaining segment has an end point equal to the first or the last point *)
(* of the path.                                                            *)
(***************************************************************************)
NoneAttachable(path, segs) ==
    \A i \in DOMAIN segs : EndPoints(segs[i]) \cap {path[1], Last(path)} = {}

ChainTerminates ==
    /\ <>(pc = "done")
    /\ [][pc = "chain" =>
            /\ (Len(polygon') = Len(polygon) + 1 /\ pc' = "chain")
                   => Len(segments') = Len(segments) - 1
            /\ segments' /= segments
                   => (Len(polygon') = Len(polygon) + 1 /\ Len(attached') = Len(attached) + 1)]_vars
    /\ [](\A i, j \in DOMAIN attached : attached[i] = attached[j] => i = j)
    /\ []((pc = "done" /\ returned = "polygon") =>
              (segments = <<>> \/ NoneAttachable(chained, segments)))

\* the loop stopped with segments left in the pool, after an attachment
ChainTerminatesWitness ==
    /\ pc = "done"
    /\ returned = "polygon"
    /\ segments /= <<>>
    /\ Len(attached) >= 2
    /\ NoneAttachable(chained, segments)

(***************************************************************************)
(* C10: when the emitted segments form two closed loops that share no      *)
(* vertex, the ring is made of exactly the points of the loop of the first *)
(* emitted segment; no point of the other loop appears.                    *)
(***************************************************************************)
FirstLoopOnly ==
    (pc = "done" /\ TwoDisjointLoops(emitted)) =>
        LET first == Reach(emitted, EndPoints(emitted[1]))
        IN  /\ returned = "polygon"
            /\ {PointOf(result[i]) : i \in DOMAIN result} = first
            /\ Len(result) = Cardinality(first) + 1
            /\ result[1] = result[Len(result)]

\* the first linedef is an edge of the second triangle: the ring is that
\* triangle and the first triangle's three segments stay in the pool
FirstLoopOnlyWitness ==
    /\ pc = "done"
    /\ TwoDisjointLoops(emitted)
    /\ map_obj.linedefs[1].v0 = 4
    /\ returned = "polygon"
    /\ PointOf(result[1]) \in {<<128, 128>>, <<192, 128>>, <<128, 192>>}
    /\ Len(segments) = 3

(***************************************************************************)
(* C8: the division by (yj - yi) is evaluated only for an edge with exactly*)
(* one end point strictly above the query y, so never with a zero divisor; *)
(* an edge with yi = yj (the zero-length wrap edge of a closed ring        *)
(* included) never toggles `inside'.                                       *)
(***************************************************************************)
DivisionGuarded ==
    /\ pip_pc /= "ZeroDivisionError"
    /\ \A k \in DOMAIN pip_log :
        LET e == pip_log[k]
        IN  /\ e.divided =>
                /\ Cardinality({yy \in {e.yi, e.yj} : yy > pip_y}) = 1
                /\ e.yj - e.yi /= 0
            /\ e.yi = e.yj => ~e.toggled

\* a closed ring, all its edges visited: the wrap edge has zero length, one
\* edge lies on the query's y, and the ray crossed an edge
DivisionGuardedWitness ==
    /\ pip_pc = "done"
    /\ Len(pip_polygon) = 4
    /\ pip_polygon[1] = pip_polygon[4]
    /\ pip_log[1].yi = pip_log[1].yj
    /\ \E k \in 2..4 : pip_log[k].yi = pip_y /\ pip_log[k].yj = pip_y
                        /\ pip_polygon[k] /= pip_polygon[k - 1]
    /\ \E k \in 2..4 : pip_log[k].toggled
    /\ inside

(***************************************************************************)
(* C4: the sectors are visited in increasing index order; the result is    *)
(* the lowest index of a sector whose polygon exists and contains the      *)
(* point; a sector without a polygon is passed over; the result is None    *)
(* exactly when no sector's polygon contains the point.                    *)
(***************************************************************************)
ContainingSectors(m, x, y) ==
    {s \in 0..(m.sectors - 1) :
        /\ compute_sector_polygon(m, s).returned = "polygon"
        /\ point_in_polygon(x, y, compute_sector_polygon(m, s).result)}

LowestContainingSector ==
    /\ \A k \in DOMAIN fs_visited : fs_visited[k] = k - 1
    /\ fs_pc = "done" =>
        LET hits == ContainingSectors(map_obj, fs_x, fs_y)
        IN  IF hits = {}
            THEN fs_returned = "None" /\ Len(fs_visited) = map_obj.sectors
            ELSE /\ fs_returned = "index"
                 /\ fs_result \in hits
                 /\ \A s \in hits : fs_result <= s
                 /\ Len(fs_visited) = fs_result + 1

\* sector 0 has no polygon, sector 1 does not contain (32,32), sector 2 is
\* the square A and is the result
LowestContainingSectorWitness ==
    /\ fs_pc = "done"
    /\ map_obj.sectors = 3
    /\ compute_sector_polygon(map_obj, 0).returned = "None"
    /\ compute_sector_polygon(map_obj, 1).returned = "polygon"
    /\ compute_sector_polygon(map_obj, 2).result = Append(Square, Square[1])
    /\ fs_x = 32 /\ fs_y = 32
    /\ fs_returned = "index"
    /\ fs_result = 2

(***************************************************************************)
(* C5: read_origin returns the position of the last Thing of type 1, and   *)
(* (0, 0) when there is none; Things of other types do not change it.      *)
(***************************************************************************)
PlayerStarts(ts) == {k \in DOMAIN ts : ts[k].type = 1}

LastPlayerStart ==
    ro_pc = "done" =>
        IF PlayerStarts(things) = {} THEN origin = Vertex(0, 0)
        ELSE LET last == CHOOSE k \in PlayerStarts(things) :
                             \A j \in PlayerStarts(things) : j <= k
             IN  origin = Vertex(things[last].x_pos, things[last].y_pos)

\* player starts at (0,0) and then (50,50), followed by another thing
\* elsewhere: the origin is (50,50)
LastPlayerStartWitness ==
    /\ ro_pc = "done"
    /\ Len(things) = 3
    /\ things[1].type = 1 /\ things[1].x_pos = 0 /\ things[1].y_pos = 0
    /\ things[2].type = 1 /\ things[2].x_pos = 50 /\ things[2].y_pos = 50
    /\ things[3].type /= 1 /\ things[3].x_pos = 128
    /\ origin = Vertex(50, 50)

(***************************************************************************)
(* C6: a raw side0 or side1 field of 0xFFFF decodes to -1, never to 65535; *)
(* any other raw value decodes to its signed 16-bit interpretation.        *)
(***************************************************************************)
RawSide(lump, k, field) == ReadU16(lump, (k - 1) * LinedefSize + 2 * field)

SideDecodedAs(raw, side) ==
    IF raw = 65535 THEN side = -1 /\ side /= 65535
    ELSE side = (IF raw < 32768 THEN raw ELSE raw - 65536)

AbsentSideDecoded ==
    \A k \in DOMAIN linedefs :
        /\ SideDecodedAs(RawSide(linedefs_lump, k, 5), linedefs[k].side0)
        /\ SideDecodedAs(RawSide(linedefs_lump, k, 6), linedefs[k].side1)

\* a record with side0 = 0xFFFE and side1 = 0xFFFF, and one with
\* side0 = 0x8000 and side1 = 0, both decoded
AbsentSideDecodedWitness ==
    /\ rl_pc = "done"
    /\ Len(linedefs) = 2
    /\ RawSide(linedefs_lump, 1, 5) = 65534 /\ linedefs[1].side0 = -2
    /\ RawSide(linedefs_lump, 1, 6) = 65535 /\ linedefs[1].side1 = -1
    /\ RawSide(linedefs_lump, 2, 5) = 32768 /\ linedefs[2].side0 = -32768
    /\ RawSide(linedefs_lump, 2, 6) = 0 /\ linedefs[2].side1 = 0

(***************************************************************************)
(* C7: when the batch has ended, every map of a WAD of the batch whose     *)
(* five lumps are all present has been decoded and collected, wherever it  *)
(* stands relative to a map that fails to decode.                          *)
(***************************************************************************)
CompleteMaps(files) ==
    {fm \in (0..(Len(files) - 1)) \X (0..(MaxMapsPerWad - 1)) :
        /\ files[fm[1] + 1].is_wad
        /\ fm[2] < Len(files[fm[1] + 1].maps)
        /\ RequiredLumps \subseteq files[fm[1] + 1].maps[fm[2] + 1]}

BatchIsolation ==
    batch_pc \in {"done", "KeyError"} => CompleteMaps(wad_files) \subseteq SeqRange(maps)

====
